---- MODULE Spec2Model ----
(***************************************************************************)
(* Model of parse_chat_log (src/app.py): the line-by-line scan of a chat   *)
(* transcript that tracks the current movement header and extracts item    *)
(* records, followed by the removal of duplicate rows.                     *)
(*                                                                         *)
(* Text is a sequence of one-character strings, so that the string         *)
(* operations of the source (strip, split, find, slicing, the regular      *)
(* expressions) are computed on characters as the source computes them.    *)
(* Positions are 0-based and slices are half-open, as in Python.           *)
(***************************************************************************)
EXTENDS Integers, Sequences, FiniteSets, TLC

\* ------------------------------------------------------------------------
\* Characters and the string primitives used by parse_chat_log
\* ------------------------------------------------------------------------

Digits == {"0", "1", "2", "3", "4", "5", "6", "7", "8", "9"}

Whitespace == {" ", "\t", "\r"}

UpperCase == <<"A","B","C","D","E","F","G","H","I","J","K","L","M",
               "N","O","P","Q","R","S","T","U","V","W","X","Y","Z">>

LowerCase == <<"a","b","c","d","e","f","g","h","i","j","k","l","m",
               "n","o","p","q","r","s","t","u","v","w","x","y","z">>

\* str.lower() on one character
LowerChar(c) ==
    IF \E k \in 1..26 : UpperCase[k] = c
    THEN LowerCase[CHOOSE k \in 1..26 : UpperCase[k] = c]
    ELSE c

\* str.lower()
Lower(s) == [k \in 1..Len(s) |-> LowerChar(s[k])]

\* s[a:b] for 0 <= a
Slice(s, a, b) ==
    LET hi == IF b > Len(s) THEN Len(s) ELSE b
    IN  IF a >= hi THEN << >> ELSE SubSeq(s, a + 1, hi)

\* s[a:]
SliceFrom(s, a) == Slice(s, a, Len(s))

\* s.startswith(sub) at 0-based offset i
StartsAt(s, sub, i) ==
    /\ i + Len(sub) <= Len(s)
    /\ \A k \in 1..Len(sub) : s[i + k] = sub[k]

\* s.find(sub): the lowest 0-based index of sub in s, or -1
Find(s, sub) ==
    LET hits == {i \in 0..Len(s) : StartsAt(s, sub, i)}
    IN  IF hits = {} THEN -1
        ELSE CHOOSE i \in hits : \A j \in hits : i <= j

\* sub in s
Contains(s, sub) == Find(s, sub) # -1

\* s.strip(): leading and trailing whitespace removed
Strip(s) ==
    LET keep == {k \in 1..Len(s) : s[k] \notin Whitespace}
    IN  IF keep = {} THEN << >>
        ELSE LET lo == CHOOSE k \in keep : \A j \in keep : k <= j
                 hi == CHOOSE k \in keep : \A j \in keep : k >= j
             IN  SubSeq(s, lo, hi)

\* s.rstrip(":- "): trailing ':', '-' and ' ' removed
RStripSeparators(s) ==
    LET keep == {k \in 1..Len(s) : s[k] \notin {":", "-", " "}}
    IN  IF keep = {} THEN << >>
        ELSE SubSeq(s, 1, CHOOSE k \in keep : \A j \in keep : k >= j)

\* number of consecutive characters of class cls in s from 0-based offset i
Run(s, i, cls) ==
    IF i >= Len(s) THEN 0
    ELSE LET stops == {k \in i..Len(s) : k = Len(s) \/ s[k + 1] \notin cls}
         IN  (CHOOSE k \in stops : \A j \in stops : k <= j) - i

\* the character at 0-based offset i, or "" past the end
At(s, i) == IF i >= 0 /\ i < Len(s) THEN s[i + 1] ELSE ""

\* re.search(r'\d', s)
HasDigit(s) == \E k \in 1..Len(s) : s[k] \in Digits

\* int(s) for a string of decimal digits
DigitValue(c) ==
    CASE c = "0" -> 0 [] c = "1" -> 1 [] c = "2" -> 2 [] c = "3" -> 3
      [] c = "4" -> 4 [] c = "5" -> 5 [] c = "6" -> 6 [] c = "7" -> 7
      [] c = "8" -> 8 [] c = "9" -> 9

RECURSIVE ToInt(_)
ToInt(s) ==
    IF s = << >> THEN 0
    ELSE 10 * ToInt(SubSeq(s, 1, Len(s) - 1)) + DigitValue(s[Len(s)])

\* line.split(':', 2): at most two splits, so one to three parts
SplitColon2(s) ==
    LET c1 == Find(s, <<":">>)
    IN  IF c1 = -1 THEN <<s>>
        ELSE LET rest == SliceFrom(s, c1 + 1)
                 c2   == Find(rest, <<":">>)
             IN  IF c2 = -1 THEN <<Slice(s, 0, c1), rest>>
                 ELSE <<Slice(s, 0, c1), Slice(rest, 0, c2),
                        SliceFrom(rest, c2 + 1)>>

\* ------------------------------------------------------------------------
\* Text constants of the source
\* ------------------------------------------------------------------------

None == << >>    \* Python's None for current_date / current_time

Unknown == <<"U","n","k","n","o","w","n">>

ContainerExternal ==
    <<"C","o","n","t","a","i","n","e","r","/","E","x","t","e","r","n","a","l">>

Goods == <<"G","o","o","d","s">>

Needed == <<"N","e","e","d","e","d">>

MessageWasDeleted ==
    <<"m","e","s","s","a","g","e"," ","w","a","s"," ","d","e","l","e","t","e","d">>

Offloaded == <<"o","f","f","l","o","a","d","e","d">>

Pcs == <<"p","c","s">>

\* the unit alternatives of the item pattern, in the pattern's order
UnitVocabulary ==
    << <<"p","c","s">>, <<"c","t","n","s">>, <<"s","e","t","s">>,
       <<"d","o","z","e","n","s">>, <<"p","a","c","k","s">>, <<"p","c">>,
       <<"c","t","n">>, <<"s","e","t">>, <<"d","o","z","e","n">>,
       <<"p","a","c","k">>, <<"k","g">>, <<"g">>, <<"L">> >>

\* ------------------------------------------------------------------------
\* The patterns of parse_chat_log
\* ------------------------------------------------------------------------

\* A pattern element: between min and max characters of the class cls
\* (max = -1: no upper limit)
El(cls, min, max) == [cls |-> cls, min |-> min, max |-> max]

\* what a greedy element takes at 0-based offset i
Take(s, i, el) ==
    IF el.max # -1 /\ Run(s, i, el.cls) > el.max THEN el.max
    ELSE Run(s, i, el.cls)

\* A pattern that is a sequence of elements, matched at offset ends[1]: the
\* offsets after each element, or << >> when the pattern does not match.
\* In the patterns below no element can start with a character of the class
\* of the element before it, so giving back characters never helps and the
\* greedy choice is the match of the regular expression.
RECURSIVE MatchSeq(_, _, _)
RECURSIVE Extend(_, _, _, _)
MatchSeq(s, pat, ends) ==
    IF Len(ends) > Len(pat) THEN ends
    ELSE Extend(s, pat, ends, Take(s, ends[Len(ends)], pat[Len(ends)]))

Extend(s, pat, ends, n) ==
    IF n < pat[Len(ends)].min THEN << >>
    ELSE MatchSeq(s, pat, Append(ends, ends[Len(ends)] + n))

\* line 23: ^\[(\d{1,2}/\d{1,2}/\d{2,4}),\s?(\d{1,2}:\d{2}:\d{2}\s?[AP]M)\]
TimestampPattern ==
    << El({"["}, 1, 1),
       El(Digits, 1, 2), El({"/"}, 1, 1), El(Digits, 1, 2), El({"/"}, 1, 1),
       El(Digits, 2, 4),
       El({","}, 1, 1), El(Whitespace, 0, 1),
       El(Digits, 1, 2), El({":"}, 1, 1), El(Digits, 2, 2), El({":"}, 1, 1),
       El(Digits, 2, 2), El(Whitespace, 0, 1), El({"A", "P"}, 1, 1),
       El({"M"}, 1, 1),
       El({"]"}, 1, 1) >>

\* ts_match.group(1) and ts_match.group(2): the date runs from after "["
\* to the ",", the time from after ",\s?" to the "]"
TimestampGroups(line, ends) ==
    IF ends = << >>
    THEN [matched |-> FALSE, date |-> None, time |-> None]
    ELSE [matched |-> TRUE,
          date    |-> Slice(line, ends[2], ends[7]),
          time    |-> Slice(line, ends[9], ends[17])]

\* re.match(timestamp_pattern, line)
MatchTimestamp(line) ==
    TimestampGroups(line, MatchSeq(line, TimestampPattern, <<0>>))

\* re.split(r' on \d', raw, flags=re.IGNORECASE)[0]
SplitOnDate(raw) ==
    LET low  == Lower(raw)
        hits == {i \in 0..Len(raw) :
                    /\ StartsAt(low, <<" ","o","n"," ">>, i)
                    /\ At(raw, i + 4) \in Digits}
    IN  IF hits = {} THEN raw
        ELSE Slice(raw, 0, CHOOSE i \in hits : \A j \in hits : i <= j)

\* "Goods" in message_content and "Needed" not in message_content
IsHeader(message_content) ==
    Contains(message_content, Goods) /\ ~Contains(message_content, Needed)

\* the source taken between "from" and "to" without the test that "to"
\* comes after "from"
HeaderSourceNoOrder(message_content) ==
    LET text_lower == Lower(message_content)
        start_idx  == Find(text_lower, <<"f","r","o","m"," ">>) + 5
        end_idx    == Find(text_lower, <<" ","t","o"," ">>)
    IN  IF Contains(text_lower, <<"f","r","o","m"," ">>)
        THEN IF end_idx # -1
             THEN Strip(Slice(message_content, start_idx, end_idx))
             ELSE Strip(SplitOnDate(Strip(SliceFrom(message_content, start_idx))))
        ELSE Unknown

\* 1. Extract SOURCE (From X)
HeaderSource(message_content) ==
    LET text_lower == Lower(message_content)
        start_idx  == Find(text_lower, <<"f","r","o","m"," ">>) + 5
        end_idx    == Find(text_lower, <<" ","t","o"," ">>)
    IN  IF Contains(text_lower, <<"f","r","o","m"," ">>)
        THEN IF end_idx # -1 /\ end_idx > start_idx
             THEN Strip(Slice(message_content, start_idx, end_idx))
             ELSE Strip(SplitOnDate(Strip(SliceFrom(message_content, start_idx))))
        ELSE Unknown

\* 2. Extract DESTINATION (To Y)
HeaderDest(message_content) ==
    LET text_lower == Lower(message_content)
        start_idx  == Find(text_lower, <<" ","t","o"," ">>) + 4
        end_idx    == Find(text_lower, <<" ","f","r","o","m"," ">>)
    IN  IF Contains(text_lower, <<" ","t","o"," ">>)
        THEN IF end_idx # -1 /\ end_idx > start_idx
             THEN Strip(Slice(message_content, start_idx, end_idx))
             ELSE Strip(SplitOnDate(Strip(SliceFrom(message_content, start_idx))))
        ELSE Unknown

\* the generic source given only to a header that names no destination
OffloadedSourceWithoutTo(source, message_content) ==
    IF /\ source = Unknown
       /\ Contains(Lower(message_content), Offloaded)
       /\ ~Contains(Lower(message_content), <<" ","t","o"," ">>)
    THEN ContainerExternal
    ELSE source

\* 3. "Offloaded" as a generic source if From is missing
OffloadedSource(source, message_content) ==
    IF source = Unknown /\ Contains(Lower(message_content), Offloaded)
    THEN ContainerExternal
    ELSE source

\* line 127: ^\d+[\).]\s?
NumberingPattern ==
    << El(Digits, 1, -1), El({")", "."}, 1, 1), El(Whitespace, 0, 1) >>

RemoveNumbering(target_text, ends) ==
    IF ends = << >> THEN target_text ELSE SliceFrom(target_text, ends[4])

\* re.sub(r'^\d+[\).]\s?', '', target_text)
CleanNumbering(target_text) ==
    RemoveNumbering(target_text, MatchSeq(target_text, NumberingPattern, <<0>>))

\* line 133, after the name: [:\-\s]+(\d+)\s*
ItemTailPattern ==
    << El({":", "-"} \cup Whitespace, 1, -1), El(Digits, 1, -1),
       El(Whitespace, 0, -1) >>

\* line 133, the end of the pattern: (pcs|...|L)?\s*$ with re.IGNORECASE.
\* rest is what follows the quantity and its whitespace, trimmed: the
\* pattern ends here when rest is empty or is one of the unit alternatives.
UnitGroup(text, ends, rest) ==
    IF \/ rest = << >>
       \/ \E k \in 1..Len(UnitVocabulary) : Lower(rest) = Lower(UnitVocabulary[k])
    THEN [matched |-> TRUE, qty |-> Slice(text, ends[2], ends[3]), unit |-> rest]
    ELSE [matched |-> FALSE, qty |-> << >>, unit |-> << >>]

TailGroups(text, ends) ==
    IF ends = << >>
    THEN [matched |-> FALSE, qty |-> << >>, unit |-> << >>]
    ELSE UnitGroup(text, ends, Strip(SliceFrom(text, ends[4])))

\* The tail of the item pattern, [:\-\s]+(\d+)\s*(unit)?\s*$, matched at
\* 0-based offset e of text
ItemTail(text, e) == TailGroups(text, MatchSeq(text, ItemTailPattern, <<e>>))

\* the least member of a set of positive offsets, 0 for the empty set
Least(offsets) ==
    IF offsets = {} THEN 0
    ELSE CHOOSE x \in offsets : \A y \in offsets : x <= y

\* group 1 is lazy, (.+?): the shortest non-empty prefix that the tail of
\* the pattern can follow
ShortestName(clean_text) ==
    Least({e \in 1..Len(clean_text) : ItemTail(clean_text, e).matched})

ItemGroups(clean_text, e) ==
    IF e = 0
    THEN [matched |-> FALSE, name |-> << >>, qty |-> << >>, unit |-> << >>]
    ELSE [matched |-> TRUE, name |-> Slice(clean_text, 0, e),
          qty  |-> ItemTail(clean_text, e).qty,
          unit |-> ItemTail(clean_text, e).unit]

\* re.search(r'(.+?)[:\-\s]+(\d+)\s*(pcs|...|L)?\s*$', clean_text, re.I).
\* '.' matches every character of a line, so a match from a later start
\* implies one from offset 0, which the search reports.
ItemMatch(clean_text) == ItemGroups(clean_text, ShortestName(clean_text))

\* lines 136-141: the item name, trimmed and without trailing separators
ItemName(item_match) == RStripSeparators(Strip(item_match.name))

\* the matched unit as written, without .lower()
ItemUnitRaw(item_match) ==
    IF item_match.unit # << >> THEN item_match.unit ELSE Pcs

\* line 138 and 151: the matched unit lowercased, "pcs" if absent
ItemUnit(item_match) ==
    IF item_match.unit # << >> THEN Lower(item_match.unit) ELSE Pcs

\* lines 114-120: the text the item pattern is applied to; a line that
\* starts with "[" is replaced by the third part of its split on ':'
TargetText(line) ==
    IF At(line, 0) = "["
    THEN LET parts == SplitColon2(line)
         IN  IF Len(parts) > 2 THEN [ok |-> TRUE, text |-> Strip(parts[3])]
             ELSE [ok |-> FALSE, text |-> << >>]
    ELSE [ok |-> TRUE, text |-> line]

\* ------------------------------------------------------------------------
\* Transcripts: the lines a chat export can contain
\* ------------------------------------------------------------------------

\* "[1/27/25, 8:07:58 AM]" and "[1/27/25, 8:09:00 AM]"
Timestamp ==
    << <<"[","1","/","2","7","/","2","5",","," ","8",":","0","7",":","5","8"," ","A","M","]">>,
       <<"[","1","/","2","7","/","2","5",","," ","8",":","0","9",":","0","0"," ","A","M","]">> >>

Ali == <<"A","l","i">>

Bob == <<"B","o","b">>

StoreA == <<"S","t","o","r","e"," ","A">>

ShopB == <<"S","h","o","p"," ","B">>

OnDate == <<" ","o","n"," ","1","/","2","/","2","5">>

\* header texts in the phrasings of lines 54-84
FromTo(x, y) == Goods \o <<" ","F","r","o","m"," ">> \o x \o <<" ","t","o"," ">> \o y

ToFrom(x, y) == Goods \o <<" ","t","o"," ">> \o y \o <<" ","f","r","o","m"," ">> \o x

FromOnly(x) == Goods \o <<" ","f","r","o","m"," ">> \o x

ToOnly(y) == Goods \o <<" ","t","o"," ">> \o y

GoodsOffloaded == <<"G","o","o","d","s"," ","O","f","f","l","o","a","d","e","d">>

GoodsNeeded == <<"G","o","o","d","s"," ","N","e","e","d","e","d">>

OkThanks == <<"o","k"," ","t","h","a","n","k","s">>

Rice50kg == <<"R","i","c","e",":"," ","5","0","k","g">>

Rice50 == <<"R","i","c","e"," ","5","0">>

Oil5L == <<"O","i","l"," ","5","L">>

Sugar5ctns == <<"1","."," ","S","u","g","a","r"," ","-"," ","5","c","t","n","s"," ">>

CannedGoods50 == <<"C","a","n","n","e","d"," ","G","o","o","d","s",":"," ","5","0">>

Deleted == <<"T","h","i","s"," ","m","e","s","s","a","g","e"," ","w","a","s"," ","d","e","l","e","t","e","d"," ","5">>

X5 == <<"x"," ","5">>

BracketRice50 == <<"[","R","i","c","e"," ","5","0">>

RiceOnSale5 == <<"R","i","c","e"," ","o","n"," ","s","a","l","e"," ","5">>

\* a header that names a destination and says the goods were offloaded
OffloadedTo(y) == GoodsOffloaded \o <<" ","t","o"," ">> \o y

\* a continuation line that opens with "[" and is no timestamp: the
\* deletion marker stands before its second colon
BracketDeleted ==
    <<"[","T","h","i","s"," ","m","e","s","s","a","g","e"," ","w","a","s"," ","d","e","l","e","t","e","d",":"," ","x",":"," ","R","i","c","e"," ","5","0">>

\* a chat message: ts = 0 for a continuation line, otherwise the index of its
\* timestamp; sender = << >> for a timestamped line without "<sender>: "
Msg(ts, sender, body) == [ts |-> ts, sender |-> sender, body |-> body]

\* the line of the export file that carries message m
Text(m) ==
    IF m.ts = 0 THEN m.body
    ELSE Timestamp[m.ts] \o <<" ">>
         \o (IF m.sender = << >> THEN << >> ELSE m.sender \o <<":", " ">>)
         \o m.body

Headers ==
    { Msg(1, Ali, FromTo(StoreA, ShopB) \o OnDate),
      Msg(1, Ali, ToFrom(StoreA, ShopB)),
      Msg(2, Ali, ToFrom(StoreA, ShopB) \o OnDate),
      Msg(1, Ali, FromOnly(StoreA)),
      Msg(1, Ali, ToOnly(ShopB) \o OnDate),
      Msg(1, Ali, GoodsOffloaded),
      Msg(1, Ali, OffloadedTo(ShopB)) }

Replies ==
    { Msg(2, Bob, OkThanks),
      Msg(2, Bob, GoodsNeeded),
      Msg(2, << >>, Rice50) }

ItemLines ==
    { Msg(0, << >>, Rice50kg),
      Msg(2, Ali, Rice50kg),
      Msg(0, << >>, Rice50),
      Msg(0, << >>, Oil5L),
      Msg(0, << >>, Sugar5ctns) }

OtherLines ==
    { Msg(0, << >>, << >>),
      Msg(0, << >>, CannedGoods50),
      Msg(0, << >>, Deleted),
      Msg(0, << >>, X5),
      Msg(0, << >>, RiceOnSale5),
      Msg(0, << >>, BracketRice50),
      Msg(0, << >>, BracketDeleted),
      Msg(0, << >>, FromTo(StoreA, ShopB)) }

Messages == Headers \cup Replies \cup ItemLines \cup OtherLines

\* ------------------------------------------------------------------------
\* The parse as a state machine
\* ------------------------------------------------------------------------

MaxLines == 4          \* longest transcript of a single parse

MaxLinesTwo == 2       \* longest transcript of two concurrent parses

Procs == {1, 2}        \* invocations of parse_chat_log

NoMsg == Msg(0, << >>, <<"\n">>)   \* no line read yet (no line holds "\n")

VARIABLES
    pc,                     \* per invocation: "idle", "scan" or "done"
    content,                \* the transcript handed to the invocation
    nlines,                 \* len(lines)
    idx,                    \* number of lines the for loop has taken
    current_date,
    current_time,
    current_source,
    current_dest,
    is_valid_transaction,
    data,                   \* the records appended so far
    df,                     \* the returned table
    last,                   \* history: the message of the line last taken
    header_seen,            \* history: a header has been accepted
    replied,                \* history: a timestamped message without a digit
                            \*   has arrived since the last accepted header
    needed,                 \* history: a timestamped "Needed" message has
                            \*   arrived since the last accepted header
    stamp,                  \* history: the timestamp index of the most
                            \*   recent timestamped line (0: none yet)
    announced               \* history: the names the most recent accepted
                            \*   header announces

vars == <<pc, content, nlines, idx, current_date, current_time,
          current_source, current_dest, is_valid_transaction, data, df,
          last, header_seen, replied, needed, stamp, announced>>

\* lines 12-19: the locals at the start of an invocation
FreshLocals ==
    [current_date |-> None, current_time |-> None,
     current_source |-> Unknown, current_dest |-> Unknown,
     is_valid_transaction |-> FALSE, data |-> << >>]

\* lines 38-42: the message content of a timestamped line is the third part
\* of line.split(':', 2), stripped; fewer than three parts is malformed
MessageContent(line) ==
    LET parts == SplitColon2(line)
    IN  IF Len(parts) > 2 THEN [ok |-> TRUE, text |-> Strip(parts[3])]
        ELSE [ok |-> FALSE, text |-> << >>]

\* lines 96-98: a new message that is not a header closes the transaction
\* when its content holds no digit
StaysOpen(valid, message_content) ==
    IF valid THEN HasDigit(message_content) ELSE FALSE

\* section B entered without the test of is_valid_transaction
ItemSectionRunsAlways(valid, goods_line) == ~goods_line

\* lines 101-104: the guard of section B
ItemSectionRuns(valid, goods_line) == valid /\ ~goods_line

\* lines 122-124: Skip noise
IsNoise(target_text) ==
    Contains(target_text, Goods) \/ Contains(target_text, MessageWasDeleted)

\* line 143: the condition under which a matched item is appended
AcceptItem(item_name) == Len(item_name) > 1

\* lines 144-152: the appended record
Record(date, time, source, dest, f) ==
    [Date |-> date, Time |-> time, Source |-> source, Destination |-> dest,
     Item |-> f.item_name, Quantity |-> f.quantity, Unit |-> f.unit]

\* duplicate removal that stops after the first row it drops
RECURSIVE DropOneDuplicate(_)
DropOneDuplicate(rows) ==
    IF rows = << >> THEN << >>
    ELSE LET n     == Len(rows)
             front == SubSeq(rows, 1, n - 1)
         IN  IF \E k \in 1..(n - 1) : rows[k] = rows[n]
             THEN front
             ELSE Append(DropOneDuplicate(front), rows[n])

\* duplicate removal that keeps the last of equal rows instead of the first
RECURSIVE DropDuplicatesKeepLast(_)
DropDuplicatesKeepLast(rows) ==
    IF rows = << >> THEN << >>
    ELSE IF \E k \in 2..Len(rows) : rows[k] = rows[1]
         THEN DropDuplicatesKeepLast(Tail(rows))
         ELSE <<rows[1]>> \o DropDuplicatesKeepLast(Tail(rows))

\* DataFrame.drop_duplicates(): a row is dropped when an earlier row is
\* equal to it in every column; the kept rows stay in order
RECURSIVE DropDuplicates(_)
DropDuplicates(rows) ==
    IF rows = << >> THEN << >>
    ELSE LET n     == Len(rows)
             front == SubSeq(rows, 1, n - 1)
         IN  IF \E k \in 1..(n - 1) : rows[k] = rows[n]
             THEN DropDuplicates(front)
             ELSE Append(DropDuplicates(front), rows[n])

\* the table returned without duplicate removal
FinalTableRaw(rows) == rows

\* lines 154-160: the returned table
FinalTable(rows) == IF rows # << >> THEN DropDuplicates(rows) ELSE << >>

\* history: the names a header message announces, by its phrasing
Names == {StoreA, ShopB}

NoNames == [source |-> Unknown, dest |-> Unknown]

Announced(m) ==
    IF \E x, y \in Names :
           m.body \in {FromTo(x, y), FromTo(x, y) \o OnDate,
                       ToFrom(x, y), ToFrom(x, y) \o OnDate}
    THEN CHOOSE n \in [source : Names, dest : Names] :
             m.body \in {FromTo(n.source, n.dest),
                         FromTo(n.source, n.dest) \o OnDate,
                         ToFrom(n.source, n.dest),
                         ToFrom(n.source, n.dest) \o OnDate}
    ELSE IF \E x \in Names : m.body \in {FromOnly(x), FromOnly(x) \o OnDate}
    THEN [source |-> CHOOSE x \in Names :
                         m.body \in {FromOnly(x), FromOnly(x) \o OnDate},
          dest |-> Unknown]
    ELSE IF \E y \in Names : m.body \in {ToOnly(y), ToOnly(y) \o OnDate}
    THEN [source |-> Unknown,
          dest |-> CHOOSE y \in Names :
                       m.body \in {ToOnly(y), ToOnly(y) \o OnDate}]
    ELSE IF \E y \in Names : m.body = OffloadedTo(y)
    THEN [source |-> ContainerExternal,
          dest |-> CHOOSE y \in Names : m.body = OffloadedTo(y)]
    ELSE IF m.body = GoodsOffloaded
    THEN [source |-> ContainerExternal, dest |-> Unknown]
    ELSE NoNames

\* history: the message text (after "<sender>: ") of a timestamped message
IsReply(m) == m.ts # 0 /\ m.sender # << >> /\ ~HasDigit(m.body)

IsNeededMsg(m) == m.ts # 0 /\ m.sender # << >> /\ Contains(m.body, Needed)

\* What parse_chat_log computes from the text of one line alone (the
\* pattern matches and the splits of lines 28-40, 52-84, 114-141)
LineRecord(line, ts_match, mc, target, item_match) ==
    [line       |-> line,
     ts_match   |-> ts_match,
     mc         |-> mc,
     header     |-> ts_match.matched /\ mc.ok /\ IsHeader(mc.text),
     source     |-> OffloadedSource(HeaderSource(mc.text), mc.text),
     dest       |-> HeaderDest(mc.text),
     goods_line |-> Contains(line, Goods) /\ ~Contains(line, Needed),
     target     |-> target,
     noise      |-> IsNoise(target.text),
     item_match |-> item_match,
     item_name  |-> ItemName(item_match),
     quantity   |-> ToInt(item_match.qty),
     unit       |-> ItemUnit(item_match)]

LineFactsOf(line) ==
    LineRecord(line, MatchTimestamp(line), MessageContent(line),
               TargetText(line),
               ItemMatch(CleanNumbering(TargetText(line).text)))

\* line 28: line = line.strip()
LineFacts(m) == LineFactsOf(Strip(Text(m)))

\* the facts tabulated for the lines of the transcripts
Facts == [m \in Messages |-> LineFacts(m)]

\* data as one list shared by every invocation
DataOwnerShared(p) == 1

\* line 12: data is a local of the invocation that appends to it
DataOwner(p) == p

\* the locals of invocation p (lines 12-19)
Locals(p) ==
    [current_date |-> current_date[p], current_time |-> current_time[p],
     current_source |-> current_source[p], current_dest |-> current_dest[p],
     is_valid_transaction |-> is_valid_transaction[p],
     data |-> data[DataOwner(p)]]

\* the digit test of lines 96-98 run on every line that is not a header,
\* timestamped or not
ValidAfterAnyLine(loc, f) ==
    IF f.header THEN TRUE
    ELSE StaysOpen(loc.is_valid_transaction,
                   IF f.ts_match.matched /\ f.mc.ok THEN f.mc.text ELSE f.line)

\* lines 86 and 96-98: is_valid_transaction after section A
ValidAfter(loc, f) ==
    IF f.header THEN TRUE
    ELSE IF f.ts_match.matched /\ f.mc.ok
         THEN StaysOpen(loc.is_valid_transaction, f.mc.text)
         ELSE loc.is_valid_transaction

\* lines 42, 87 and 101-143: the iteration reaches data.append
Appends(loc, f) ==
    /\ ~(f.ts_match.matched /\ ~f.mc.ok)                        \* line 42
    /\ ~f.header                                                \* line 87
    /\ ItemSectionRuns(ValidAfter(loc, f), f.goods_line)
    /\ f.target.ok
    /\ ~f.noise
    /\ f.item_match.matched
    /\ AcceptItem(f.item_name)

\* a header that merges into the previous context: without the reset of
\* lines 48-49 a name the header does not give keeps its previous value
ContextAfterMerged(loc, f) ==
    [current_date   |-> IF f.ts_match.matched THEN f.ts_match.date
                        ELSE loc.current_date,
     current_time   |-> IF f.ts_match.matched THEN f.ts_match.time
                        ELSE loc.current_time,
     current_source |-> IF f.header /\ f.source # Unknown THEN f.source
                        ELSE loc.current_source,
     current_dest   |-> IF f.header /\ f.dest # Unknown THEN f.dest
                        ELSE loc.current_dest]

\* lines 31-34 and 46-84: date, time, source and destination after section A
ContextAfter(loc, f) ==
    [current_date   |-> IF f.ts_match.matched THEN f.ts_match.date
                        ELSE loc.current_date,
     current_time   |-> IF f.ts_match.matched THEN f.ts_match.time
                        ELSE loc.current_time,
     current_source |-> IF f.header THEN f.source ELSE loc.current_source,
     current_dest   |-> IF f.header THEN f.dest ELSE loc.current_dest]

\* the record stamped with the date and time held before the line was read
DataAfterStale(loc, f, c) ==
    IF Appends(loc, f)
    THEN Append(loc.data, Record(loc.current_date, loc.current_time,
                                 c.current_source, c.current_dest, f))
    ELSE loc.data

\* lines 144-152: data after the iteration, given the context after section A
DataAfter(loc, f, c) ==
    IF Appends(loc, f)
    THEN Append(loc.data, Record(c.current_date, c.current_time,
                                 c.current_source, c.current_dest, f))
    ELSE loc.data

\* One iteration of the for loop (lines 27-152) on a line with facts f:
\* the locals after the iteration
Iterate(loc, f) ==
    [current_date |-> ContextAfter(loc, f).current_date,
     current_time |-> ContextAfter(loc, f).current_time,
     current_source |-> ContextAfter(loc, f).current_source,
     current_dest |-> ContextAfter(loc, f).current_dest,
     is_valid_transaction |-> ValidAfter(loc, f),
     data |-> DataAfter(loc, f, ContextAfter(loc, f))]

\* the locals of invocation p become new; the history of the invocation
\* records message m, whose line is (header) or is not an accepted header
Assign(p, m, header, new) ==
    /\ idx' = [idx EXCEPT ![p] = @ + 1]
    /\ current_date' = [current_date EXCEPT ![p] = new.current_date]
    /\ current_time' = [current_time EXCEPT ![p] = new.current_time]
    /\ current_source' = [current_source EXCEPT ![p] = new.current_source]
    /\ current_dest' = [current_dest EXCEPT ![p] = new.current_dest]
    /\ is_valid_transaction' =
           [is_valid_transaction EXCEPT ![p] = new.is_valid_transaction]
    /\ data' = [data EXCEPT ![DataOwner(p)] = new.data]
    /\ last' = [last EXCEPT ![p] = m]
    /\ header_seen' = [header_seen EXCEPT ![p] = @ \/ header]
    /\ replied' = [replied EXCEPT ![p] = IF header THEN FALSE ELSE @ \/ IsReply(m)]
    /\ needed' = [needed EXCEPT ![p] = IF header THEN FALSE ELSE @ \/ IsNeededMsg(m)]
    /\ stamp' = [stamp EXCEPT ![p] = IF m.ts # 0 THEN m.ts ELSE @]
    /\ announced' = [announced EXCEPT ![p] = IF header THEN Announced(m) ELSE @]
    /\ UNCHANGED <<pc, content, nlines, df>>

\* the for loop runs one iteration on the line of message m
ScanLine(p, m) == Assign(p, m, Facts[m].header, Iterate(Locals(p), Facts[m]))

\* the for loop takes the next line of a transcript whose lines are not
\* fixed in advance
ReadLine(p) ==
    /\ pc[p] = "scan"
    /\ content[p] = << >>
    /\ idx[p] < nlines[p]
    /\ \E m \in Messages : ScanLine(p, m)

\* the for loop takes the next line of the transcript content[p]
ReadContent(p) ==
    /\ pc[p] = "scan"
    /\ content[p] # << >>
    /\ idx[p] < nlines[p]
    /\ ScanLine(p, content[p][idx[p] + 1])

\* a return that fails on an empty list of records
ReturnNonEmpty(p) ==
    /\ pc[p] = "scan"
    /\ idx[p] = nlines[p]
    /\ data[DataOwner(p)] # << >>
    /\ df' = [df EXCEPT ![p] = FinalTable(data[DataOwner(p)])]
    /\ pc' = [pc EXCEPT ![p] = "done"]
    /\ UNCHANGED <<content, nlines, idx, current_date, current_time,
                   current_source, current_dest, is_valid_transaction, data,
                   last, header_seen, replied, needed, stamp, announced>>

\* lines 154-160: the loop is over, the table is built and returned
Return(p) ==
    /\ pc[p] = "scan"
    /\ idx[p] = nlines[p]
    /\ df' = [df EXCEPT ![p] = FinalTable(data[DataOwner(p)])]
    /\ pc' = [pc EXCEPT ![p] = "done"]
    /\ UNCHANGED <<content, nlines, idx, current_date, current_time,
                   current_source, current_dest, is_valid_transaction, data,
                   last, header_seen, replied, needed, stamp, announced>>

InitLocals ==
    /\ idx = [p \in Procs |-> 0]
    /\ current_date = [p \in Procs |-> FreshLocals.current_date]
    /\ current_time = [p \in Procs |-> FreshLocals.current_time]
    /\ current_source = [p \in Procs |-> FreshLocals.current_source]
    /\ current_dest = [p \in Procs |-> FreshLocals.current_dest]
    /\ is_valid_transaction = [p \in Procs |-> FreshLocals.is_valid_transaction]
    /\ data = [p \in Procs |-> FreshLocals.data]
    /\ df = [p \in Procs |-> << >>]
    /\ last = [p \in Procs |-> NoMsg]
    /\ header_seen = [p \in Procs |-> FALSE]
    /\ replied = [p \in Procs |-> FALSE]
    /\ needed = [p \in Procs |-> FALSE]
    /\ stamp = [p \in Procs |-> 0]
    /\ announced = [p \in Procs |-> NoNames]

\* one invocation; content.split('\n') has at least one line
Init ==
    /\ InitLocals
    /\ pc = [p \in Procs |-> IF p = 1 THEN "scan" ELSE "idle"]
    /\ content = [p \in Procs |-> << >>]
    /\ \E n \in 1..MaxLines : nlines = [p \in Procs |-> IF p = 1 THEN n ELSE 0]

Next == \E p \in Procs : ReadLine(p) \/ Return(p)

Spec == Init /\ [][Next]_vars

\* the specification of one parse under the scheduling of a synchronous
\* loop: an enabled step is eventually taken
FairSpec == Spec /\ WF_vars(Next)

\* the transcripts of at most n lines over the messages ms
RECURSIVE Transcripts(_, _)
Transcripts(ms, n) ==
    IF n = 0 THEN {<< >>}
    ELSE LET shorter == Transcripts(ms, n - 1)
         IN  shorter \cup {Append(t, m) : t \in shorter, m \in ms}

TwoMessages ==
    { Msg(1, Ali, FromTo(StoreA, ShopB) \o OnDate),
      Msg(1, Ali, FromOnly(StoreA)),
      Msg(0, << >>, Rice50kg),
      Msg(0, << >>, Sugar5ctns) }

\* two invocations of parse_chat_log, each on its own transcript, run
\* one after the other or interleaved
InitTwo ==
    /\ InitLocals
    /\ pc = [p \in Procs |-> "scan"]
    /\ content \in [Procs -> Transcripts(TwoMessages, MaxLinesTwo) \ {<< >>}]
    /\ nlines = [p \in Procs |-> Len(content[p])]

NextTwo == \E p \in Procs : ReadContent(p) \/ Return(p)

SpecTwo == InitTwo /\ [][NextTwo]_vars

\* ------------------------------------------------------------------------
\* Properties
\* ------------------------------------------------------------------------

Rice == <<"R","i","c","e">>

Kg == <<"k","g">>

\* the rows of a table, as a set
Rows(t) == {t[k] : k \in 1..Len(t)}

\* the row a step has just appended
Newest(t) == t[Len(t)]

\* C1: once a timestamped message without a digit in its message text has
\* followed an accepted header, the context is Idle and no line appends a
\* record until the next accepted header.
C1_ReplyEndsItemList ==
    [][\A p \in Procs :
          replied'[p] => /\ ~is_valid_transaction'[p]
                         /\ data'[p] = data[p]]_vars

\* C2: after a timestamped "Needed" message the context is inactive and no
\* line appends a record until the next accepted header, whatever the
\* context was before.
C2_NeededForcesInactive ==
    [][\A p \in Procs :
          needed'[p] => /\ ~is_valid_transaction'[p]
                        /\ data'[p] = data[p]]_vars

\* C3: a step changes the records only by appending one record, and only
\* when the context is Active after a header has been accepted.
C3_RecordsOnlyWhileActive ==
    [][\A p \in Procs :
          data'[p] # data[p] =>
              /\ Len(data'[p]) = Len(data[p]) + 1
              /\ SubSeq(data'[p], 1, Len(data[p])) = data[p]
              /\ is_valid_transaction'[p]
              /\ header_seen[p]]_vars

C3_Witness ==
    \E p \in Procs :
        /\ last[p] = Msg(0, << >>, Rice50kg)
        /\ header_seen[p]
        /\ is_valid_transaction[p]
        /\ Len(data[p]) = 1

\* two rows with the same timestamp, item, quantity and unit
SameKey(r1, r2) ==
    /\ r1.Date = r2.Date /\ r1.Time = r2.Time /\ r1.Item = r2.Item
    /\ r1.Quantity = r2.Quantity /\ r1.Unit = r2.Unit

\* C4 as stated: of two records with the same timestamp, item, quantity and
\* unit, exactly one row survives in the final table.
C4_OnePerTimestampItem ==
    \A p \in Procs :
        pc[p] = "done" =>
            \A i, j \in 1..Len(data[p]) :
                (i < j /\ SameKey(data[p][i], data[p][j])) =>
                    Cardinality({k \in 1..Len(df[p]) :
                                    SameKey(df[p][k], data[p][i])}) = 1

\* C4: of two records equal in all seven fields (timestamp, source,
\* destination, item, quantity and unit), exactly one row survives in the
\* final table.
C4_OnePerIdenticalRecord ==
    \A p \in Procs :
        pc[p] = "done" =>
            \A i, j \in 1..Len(data[p]) :
                (i < j /\ data[p][i] = data[p][j]) =>
                    Cardinality({k \in 1..Len(df[p]) :
                                    df[p][k] = data[p][i]}) = 1

C4_Witness ==
    \E p \in Procs :
        /\ pc[p] = "done"
        /\ Len(data[p]) = 3
        /\ data[p][1] = data[p][3]
        /\ data[p][1] # data[p][2]
        /\ Len(df[p]) = 2

\* C5: a timestamped item message appends the record that its message text
\* gives as a continuation line, and "Rice: 50kg" gives Rice, 50, kg in
\* both forms.
C5_SameItemEitherWay ==
    [][\A p \in Procs :
          Len(data'[p]) > Len(data[p]) =>
              LET r == Newest(data'[p])
                  c == LineFacts(Msg(0, << >>, last'[p].body))
              IN  /\ (last'[p].ts # 0 /\ last'[p].sender # << >>) =>
                         /\ r.Item = c.item_name
                         /\ r.Quantity = c.quantity
                         /\ r.Unit = c.unit
                  /\ last'[p].body = Rice50kg =>
                         r.Item = Rice /\ r.Quantity = 50 /\ r.Unit = Kg]_vars

\* C6: after a header "Goods From x to y" or "Goods to y from x", with or
\* without a trailing " on <date>", the context is Active with source x
\* and destination y.
C6_FromToEitherOrder ==
    \A p \in Procs : \A x, y \in Names : \A suffix \in {<< >>, OnDate} :
        \A body \in {FromTo(x, y) \o suffix, ToFrom(x, y) \o suffix} :
            (last[p].ts # 0 /\ last[p].sender # << >> /\ last[p].body = body)
                => /\ is_valid_transaction[p]
                   /\ current_source[p] = x
                   /\ current_dest[p] = y

C6_Witness ==
    \E p \in Procs :
        /\ last[p] = Msg(2, Ali, ToFrom(StoreA, ShopB) \o OnDate)
        /\ current_source[p] = StoreA
        /\ current_dest[p] = ShopB
        /\ is_valid_transaction[p]

VocabularySet == {UnitVocabulary[k] : k \in 1..Len(UnitVocabulary)}

\* C7 as stated: every row of the output table has a natural-number
\* quantity and a lowercase unit that is a member of the unit vocabulary
\* {pcs, ..., kg, g, L} or "pcs".
C7_UnitInVocabulary ==
    \A p \in Procs : \A r \in Rows(df[p]) :
        /\ r.Quantity \in Nat
        /\ r.Unit = Lower(r.Unit)
        /\ r.Unit \in VocabularySet \cup {Pcs}

\* what the line of message m carries after its last digit, trimmed
AfterLastDigit(m) ==
    LET line == Strip(Text(m))
        ds   == {k \in 1..Len(line) : line[k] \in Digits}
    IN  IF ds = {} THEN line
        ELSE Strip(SliceFrom(line, CHOOSE k \in ds : \A j \in ds : k >= j))

UnitCarried == [m \in Messages |-> AfterLastDigit(m)]

\* C7: every appended record has a natural-number quantity and a unit that
\* is the lowercased form of a member of the unit vocabulary ("L" is
\* reported as "l"): the lowercased unit the line carries after its
\* quantity, "pcs" exactly when it carries none; and the output table
\* holds appended records only.
C7_UnitLowercasedVocabulary ==
    [][\A p \in Procs :
          /\ Len(data'[p]) > Len(data[p]) =>
                 LET r    == Newest(data'[p])
                     unit == UnitCarried[last'[p]]
                 IN  /\ r.Quantity \in Nat
                     /\ r.Unit \in {Lower(u) : u \in VocabularySet}
                     /\ r.Unit = IF unit = << >> THEN Pcs ELSE Lower(unit)
          /\ Rows(df'[p]) \subseteq Rows(data[p])]_vars

C7_Witness ==
    \E p \in Procs :
        /\ pc[p] = "done"
        /\ \E r \in Rows(df[p]) : r.Unit = <<"l">> /\ r.Quantity = 5
        /\ \E r \in Rows(df[p]) : r.Unit = Pcs /\ r.Quantity = 50

\* C8: removing duplicates from the returned table gives the returned
\* table again, row for row.
C8_DedupIdempotent ==
    \A p \in Procs : pc[p] = "done" => FinalTable(df[p]) = df[p]

C8_Witness ==
    \E p \in Procs :
        /\ pc[p] = "done"
        /\ Len(data[p]) = 3
        /\ Len(df[p]) = 1

\* C9: the loop takes the lines one at a time, never more than the
\* transcript has, and the parse reaches its completed state with every
\* line taken; the table is empty when no record was appended.
C9_Terminates ==
    /\ [][\A p \in Procs :
             /\ idx'[p] \in {idx[p], idx[p] + 1}
             /\ idx'[p] <= nlines[p]
             /\ (pc[p] = "done" => pc'[p] = "done")]_vars
    /\ <>(/\ pc[1] = "done"
          /\ idx[1] = nlines[1]
          /\ (data[1] = << >> => df[1] = << >>))

C9_Witness ==
    /\ pc[1] = "done"
    /\ nlines[1] = 1
    /\ last[1] = Msg(0, << >>, << >>)
    /\ df[1] = << >>

\* the locals after the loop has taken the given lines, one invocation
\* on its own
RECURSIVE ScanAlone(_)
ScanAlone(lines) ==
    IF lines = << >> THEN FreshLocals
    ELSE Iterate(ScanAlone(SubSeq(lines, 1, Len(lines) - 1)),
                 Facts[lines[Len(lines)]])

\* C10: whatever the other invocation does, the locals of an invocation
\* are those of a parse, on its own and from the fresh state, of the lines
\* it has taken, and its table is that of its transcript alone; two
\* invocations on the same transcript return the same table.
C10_InvocationsIndependent ==
    \A p \in Procs :
        /\ [current_date |-> current_date[p], current_time |-> current_time[p],
            current_source |-> current_source[p],
            current_dest |-> current_dest[p],
            is_valid_transaction |-> is_valid_transaction[p],
            data |-> data[p]]
               = ScanAlone(SubSeq(content[p], 1, idx[p]))
        /\ pc[p] = "done" => df[p] = FinalTable(ScanAlone(content[p]).data)
        /\ \A q \in Procs :
               (pc[p] = "done" /\ pc[q] = "done" /\ content[p] = content[q])
                   => df[p] = df[q]

C10_Witness ==
    /\ pc[2] = "done"
    /\ df[2] # << >>
    /\ pc[1] = "scan"
    /\ idx[1] = 1
    /\ header_seen[1]
    /\ content[1] # content[2]

OnWord == <<" ","o","n"," ">>

\* C11: no appended record has an item name of length <= 1 or an item
\* name containing " on ": such a match is rejected.
C11_ShortOrDatedNameRejected ==
    \A p \in Procs : \A r \in Rows(data[p]) :
        Len(r.Item) > 1 /\ ~Contains(r.Item, OnWord)

\* the date and the time written in timestamp k
StampDate(k) == Slice(Timestamp[k], 1, 8)

StampTime(k) == Slice(Timestamp[k], 10, 20)

\* C12: a timestamped line without the "<sender>: " separator appends no
\* record and changes neither source, destination nor the Active/Idle
\* flag, whether the context is Idle or Active; only the current date and
\* time are updated.
C12_MalformedLineSkipped ==
    [][\A p \in Procs :
          (idx'[p] = idx[p] + 1 /\ last'[p].ts # 0 /\ last'[p].sender = << >>)
              => /\ data'[p] = data[p]
                 /\ current_source'[p] = current_source[p]
                 /\ current_dest'[p] = current_dest[p]
                 /\ is_valid_transaction'[p] = is_valid_transaction[p]
                 /\ current_date'[p] = StampDate(last'[p].ts)
                 /\ current_time'[p] = StampTime(last'[p].ts)]_vars

\* the words of lines 55, 70 and 83 that the line of message m contains,
\* case-insensitively
HeaderWords ==
    [m \in Messages |->
        [from      |-> Contains(Lower(Strip(Text(m))), <<"f","r","o","m"," ">>),
         to        |-> Contains(Lower(Strip(Text(m))), <<" ","t","o"," ">>),
         offloaded |-> Contains(Lower(Strip(Text(m))), Offloaded)]]

\* the line last taken is an accepted header
AfterHeader(p) == last[p] \in Messages /\ Facts[last[p]].header

C14_HeaderOverwritesContext ==
    \A p \in Procs :
        AfterHeader(p) =>
            /\ current_source[p] = Announced(last[p]).source
            /\ current_dest[p] = Announced(last[p]).dest
            /\ is_valid_transaction[p]

C14_Witness ==
    \E p \in Procs :
        /\ last[p] = Msg(1, Ali, FromOnly(StoreA))
        /\ current_source[p] = StoreA
        /\ current_dest[p] = Unknown
        /\ \E r \in Rows(data[p]) : r.Destination = ShopB

\* C15: every appended record carries the source and destination of the
\* most recent accepted header before its line and the date and time of
\* the most recent timestamped line at or before its line.
C15_RecordCarriesContext ==
    [][\A p \in Procs :
          Len(data'[p]) > Len(data[p]) =>
              /\ header_seen[p]
              /\ Newest(data'[p]).Source = announced[p].source
              /\ Newest(data'[p]).Destination = announced[p].dest
              /\ stamp'[p] = (IF last'[p].ts # 0 THEN last'[p].ts ELSE stamp[p])
              /\ stamp'[p] # 0
              /\ Newest(data'[p]).Date = StampDate(stamp'[p])
              /\ Newest(data'[p]).Time = StampTime(stamp'[p])]_vars

C15_Witness ==
    \E p \in Procs :
        /\ last[p] = Msg(0, << >>, Oil5L)
        /\ Len(data[p]) = 2
        /\ data[p][1].Time = StampTime(2)
        /\ data[p][2].Time = StampTime(2)
        /\ data[p][2].Date = StampDate(2)
        /\ data[p][2].Source = StoreA
        /\ data[p][2].Destination = Unknown
        /\ announced[p] = [source |-> StoreA, dest |-> Unknown]

\* the positions of the rows that equal no earlier row
FirstOccurrences(rows) ==
    {i \in 1..Len(rows) : \A k \in 1..(i - 1) : rows[k] # rows[i]}

\* C16: the returned table is the appended records, in scan order, without
\* the rows that equal an earlier row in all seven fields: the first
\* occurrences in their order, no two rows equal, and records that differ
\* in a field both present.
C16_FirstOccurrencesInOrder ==
    \A p \in Procs :
        pc[p] = "done" =>
            /\ Len(df[p]) = Cardinality(FirstOccurrences(data[p]))
            /\ \A i \in FirstOccurrences(data[p]) :
                   df[p][Cardinality({k \in FirstOccurrences(data[p]) : k <= i})]
                       = data[p][i]
            /\ \A i, j \in 1..Len(df[p]) : df[p][i] = df[p][j] => i = j
            /\ Rows(df[p]) = Rows(data[p])

C16_Witness ==
    \E p \in Procs :
        /\ pc[p] = "done"
        /\ Len(data[p]) = 2
        /\ data[p][1].Time # data[p][2].Time
        /\ [data[p][1] EXCEPT !.Time = data[p][2].Time] = data[p][2]
        /\ df[p] = data[p]

\* whether the line of message m contains the movement keyword, the
\* negating keyword and the deletion marker
LineWords ==
    [m \in Messages |->
        [goods   |-> Contains(Text(m), Goods),
         needed  |-> Contains(Text(m), Needed),
         deleted |-> Contains(Text(m), MessageWasDeleted)]]

\* C17: no line that contains "Goods" or "message was deleted" appends a
\* record, in any state; a continuation line that contains one of them
\* leaves the context unchanged as well.
C17_NoiseLineNeverRecorded ==
    [][\A p \in Procs :
          (/\ idx'[p] = idx[p] + 1
           /\ LineWords[last'[p]].goods \/ LineWords[last'[p]].deleted)
              => /\ data'[p] = data[p]
                 /\ last'[p].ts = 0 =>
                        /\ current_source'[p] = current_source[p]
                        /\ current_dest'[p] = current_dest[p]
                        /\ is_valid_transaction'[p] = is_valid_transaction[p]]_vars

\* C18: a line without a timestamp leaves date, time, source, destination
\* and the Active/Idle flag unchanged; the context goes from Idle to Active
\* only on a timestamped line that contains "Goods" and not "Needed", and
\* source and destination change only on such a line.
C18_ContinuationKeepsContext ==
    [][\A p \in Procs :
          idx'[p] = idx[p] + 1 =>
              /\ last'[p].ts = 0 =>
                     /\ current_date'[p] = current_date[p]
                     /\ current_time'[p] = current_time[p]
                     /\ current_source'[p] = current_source[p]
                     /\ current_dest'[p] = current_dest[p]
                     /\ is_valid_transaction'[p] = is_valid_transaction[p]
              /\ (\/ ~is_valid_transaction[p] /\ is_valid_transaction'[p]
                  \/ current_source'[p] # current_source[p]
                  \/ current_dest'[p] # current_dest[p])
                     => /\ last'[p].ts # 0
                        /\ LineWords[last'[p]].goods
                        /\ ~LineWords[last'[p]].needed]_vars

C18_Witness ==
    \E p \in Procs :
        /\ last[p] = Msg(0, << >>, FromTo(StoreA, ShopB))
        /\ header_seen[p]
        /\ is_valid_transaction[p]
        /\ current_source[p] = StoreA
        /\ current_dest[p] = Unknown
        /\ data[p] = << >>

====
